---- MODULE Spec2Model ----
(***************************************************************************)
(* Model of the terminal view of Site-Portifolio: the TerminalPortfolio    *)
(* component (command interpreter, session log, input history and recall   *)
(* cursor), the ThemeProvider it calls into, and AppContent, which mounts  *)
(* the terminal exactly while the current theme is 'cmd'; and of the page  *)
(* AppContent renders otherwise: the Projects section and the Contact form *)
(* with the requests they make through the shared axios client, and the   *)
(* Hero section with its typewriter.                                       *)
(*                                                                         *)
(* The terminal and the page are never on screen together.  Next follows   *)
(* the terminal and leaves the page's variables as they are; NextPage      *)
(* follows the page from its mount and leaves the terminal's as they are;  *)
(* NextHero follows the Hero section in the same way.                      *)
(*                                                                         *)
(* Strings are sequences of one-character strings, so that toLowerCase,    *)
(* trim and split are computed as JavaScript computes them.  A rendered    *)
(* React node is a record [kind, args]: which of the handler's JSX         *)
(* fragments was produced and the values interpolated into it.  The text   *)
(* that `date` and `neofetch` derive from the clock is not part of args.   *)
(***************************************************************************)
EXTENDS Integers, Sequences, FiniteSets, TLC

VARIABLES
    currentTheme,    \* ThemeProvider: useState<Theme>('default')
    commands,        \* TerminalPortfolio: Session Log
    currentInput,    \* TerminalPortfolio: editable input buffer
    commandHistory,  \* TerminalPortfolio: Input History
    historyIndex,    \* TerminalPortfolio: recall cursor
    projects,        \* TerminalPortfolio: cached project list (titles)
    fetchStatus,     \* the mount-time projectsApi.getFeatured(10) promise
    timers,          \* pending setTimeout callbacks of `exit`, oldest first:
                     \* when each is due, and whether its session is mounted
    now,             \* the clock, in ms
    event,           \* the submission and the setTheme calls of the latest step
    inputs,          \* the lines the user may type in this run
    section,         \* Projects: its projects, categories and loading state
    formData,        \* Contact: the four form fields
    isSubmitting,    \* Contact: useState(false)
    submitStatus,    \* Contact: useState('idle')
    requests,        \* the page's requests through the api client
    console,         \* what console.error has been called with
    uncaught,        \* errors thrown out of an async function of the page
    displayedName,   \* Hero: useState('')
    isTyping,        \* Hero: useState(true)
    currentNameIndex,\* Hero: useState(0)
    heroTimer        \* Hero: the pending setTimeout, if any

terminalVars == <<currentTheme, commands, currentInput, commandHistory,
                  historyIndex, projects, fetchStatus, timers, event, inputs>>

heroVars == <<displayedName, isTyping, currentNameIndex, heroTimer>>

pageVars == <<section, formData, isSubmitting, submitStatus, requests,
              console, uncaught, heroVars>>

vars == <<terminalVars, now, pageVars>>

----------------------------------------------------------------------------
(* Bounds of the model *)

MaxHistory == 2
MaxTimers == 2
MaxTicks == 1
MaxProjects == 2

(* Program constants *)

ExitDelay == 1000
ApiTimeout == 10000
StartDelay == 100
TypeDelay == 100
PauseDelay == 2000
EraseDelay == 50

----------------------------------------------------------------------------
(* Strings *)

UpperCase == <<"A","B","C","D","E","F","G","H","I","J","K","L","M",
               "N","O","P","Q","R","S","T","U","V","W","X","Y","Z">>
LowerCase == <<"a","b","c","d","e","f","g","h","i","j","k","l","m",
               "n","o","p","q","r","s","t","u","v","w","x","y","z">>

WhiteSpace == {" ", "\t", "\n", "\r"}

toLowerCaseChar(c) ==
    IF \E i \in 1..26 : UpperCase[i] = c
    THEN LowerCase[CHOOSE i \in 1..26 : UpperCase[i] = c]
    ELSE c

toLowerCase(s) == [i \in 1..Len(s) |-> toLowerCaseChar(s[i])]

RECURSIVE trimStart(_)
trimStart(s) ==
    IF s # <<>> /\ Head(s) \in WhiteSpace THEN trimStart(Tail(s)) ELSE s

RECURSIVE trimEnd(_)
trimEnd(s) ==
    IF s # <<>> /\ s[Len(s)] \in WhiteSpace
    THEN trimEnd(SubSeq(s, 1, Len(s) - 1))
    ELSE s

RECURSIVE stripSpaces(_)
stripSpaces(s) ==
    IF s # <<>> /\ Head(s) = " " THEN stripSpaces(Tail(s))
    ELSE IF s # <<>> /\ s[Len(s)] = " "
         THEN stripSpaces(SubSeq(s, 1, Len(s) - 1))
         ELSE s

(* Mutant of trim: strips spaces only *)
trim_SpacesOnly(s) == stripSpaces(s)

trim(s) == trimEnd(trimStart(s))

(* String.prototype.split with a one-character separator: every occurrence
   of the separator ends a token, so adjacent separators give empty tokens
   and the empty string gives one empty token. *)
RECURSIVE split(_, _)
split(s, sep) ==
    IF \E i \in 1..Len(s) : s[i] = sep
    THEN LET i == CHOOSE k \in 1..Len(s) :
                      s[k] = sep /\ \A j \in 1..(k - 1) : s[j] # sep
         IN  <<SubSeq(s, 1, i - 1)>> \o split(SubSeq(s, i + 1, Len(s)), sep)
    ELSE <<s>>

----------------------------------------------------------------------------
(* String literals of the source, as character sequences *)

S_help == <<"h","e","l","p">>
S_about == <<"a","b","o","u","t">>
S_skills == <<"s","k","i","l","l","s">>
S_projects == <<"p","r","o","j","e","c","t","s">>
S_contact == <<"c","o","n","t","a","c","t">>
S_experience == <<"e","x","p","e","r","i","e","n","c","e">>
S_education == <<"e","d","u","c","a","t","i","o","n">>
S_clear == <<"c","l","e","a","r">>
S_whoami == <<"w","h","o","a","m","i">>
S_ls == <<"l","s">>
S_cat == <<"c","a","t">>
S_neofetch == <<"n","e","o","f","e","t","c","h">>
S_tree == <<"t","r","e","e">>
S_pwd == <<"p","w","d">>
S_date == <<"d","a","t","e">>
S_theme == <<"t","h","e","m","e">>
S_exit == <<"e","x","i","t">>
T_default == <<"d","e","f","a","u","l","t">>
T_angler == <<"a","n","g","l","e","r">>
T_magic == <<"m","a","g","i","c">>
T_cmd == <<"c","m","d">>
S_readme == <<"r","e","a","d","m","e",".","m","d">>
S_filename == <<"f","i","l","e","n","a","m","e">>

(* The value JavaScript gives for a missing array element or argument.  Its
   single element is not a character, so it equals no string. *)
undefined == <<"undefined">>

(* JavaScript array indexing, 0-based: out of range gives undefined. *)
at(arr, i) == IF i >= 0 /\ i < Len(arr) THEN arr[i + 1] ELSE undefined

(* JavaScript truthiness of a string-or-undefined value. *)
truthy(v) == v # undefined /\ v # <<>>

----------------------------------------------------------------------------
(* ThemeContext.tsx *)

Theme == {T_default, T_angler, T_magic, T_cmd}

(* App.tsx: AppContent renders TerminalPortfolio exactly for theme 'cmd'. *)
rendersTerminal(theme) == theme = T_cmd

mounted == rendersTerminal(currentTheme)

----------------------------------------------------------------------------
(* TerminalPortfolio: static data *)

(* Mutant of availableCommands: the registry lacks `exit` *)
availableCommands_WithoutExit ==
    <<S_help, S_about, S_skills, S_projects, S_contact, S_experience,
      S_education, S_clear, S_whoami, S_ls, S_cat, S_neofetch, S_tree,
      S_pwd, S_date, S_theme>>

availableCommands ==
    <<S_help, S_about, S_skills, S_projects, S_contact, S_experience,
      S_education, S_clear, S_whoami, S_ls, S_cat, S_neofetch, S_tree,
      S_pwd, S_date, S_theme, S_exit>>

themes == <<T_default, T_angler, T_magic, T_cmd>>

includes(arr, v) == \E i \in 1..Len(arr) : arr[i] = v

Node(kind, args) == [kind |-> kind, args |-> args]

welcomeCommand(t) ==
    [input |-> <<>>, output |-> Node("welcome", <<>>), timestamp |-> t]

(* The mock data the failed fetch falls back to, by title. *)
mockProjects ==
    << <<"P","o","r","t","f","o","l","i","o"," ","T","e","r","m","i","n","a","l">>,
       <<"F","u","l","l"," ","S","t","a","c","k"," ","D","a","s","h","b","o","a","r","d">> >>

----------------------------------------------------------------------------
(* TerminalPortfolio.executeCommand, in parts *)

(* const [cmd, ...args] = input.toLowerCase().trim().split(" ") *)
tokens(input) == split(trim(toLowerCase(input)), " ")
cmdOf(input) == at(tokens(input), 0)
argsOf(input) == Tail(tokens(input))

(* the handlers whose output is a fixed JSX fragment *)
staticKind(cmd) ==
    CASE cmd = S_help       -> "help"
      [] cmd = S_about      -> "about"
      [] cmd = S_skills     -> "skills"
      [] cmd = S_contact    -> "contact"
      [] cmd = S_experience -> "experience"
      [] cmd = S_education  -> "education"
      [] cmd = S_whoami     -> "whoami"
      [] cmd = S_ls         -> "ls"
      [] cmd = S_neofetch   -> "neofetch"
      [] cmd = S_tree       -> "tree"
      [] cmd = S_pwd        -> "pwd"
      [] cmd = S_date       -> "date"
      [] OTHER              -> "none"

(* Mutant of projectsOutput: no placeholder for an empty cache *)
(* Mutant of projectsOutput: only the first project is listed *)
projectsOutput_FirstOnly(projs) ==
    IF Len(projs) > 0 THEN Node("projects", <<projs[1]>>)
    ELSE Node("loading", <<>>)

projectsOutput_NoPlaceholder(projs) == Node("projects", projs)

projectsOutput(projs) ==
    IF Len(projs) > 0 THEN Node("projects", projs) ELSE Node("loading", <<>>)

catOutput(args) ==
    IF at(args, 0) = S_readme
    THEN Node("readme", <<>>)
    ELSE Node("cat-error",
              << IF truthy(at(args, 0)) THEN at(args, 0) ELSE S_filename >>)

(* Mutant of themeAccepted: any argument is taken for a theme *)
themeAccepted_Unchecked(args) == truthy(at(args, 0))

themeAccepted(args) == truthy(at(args, 0)) /\ includes(themes, at(args, 0))

themeOutput(args) ==
    IF truthy(at(args, 0))
    THEN IF themeAccepted(args)
         THEN Node("theme-switched", <<at(args, 0)>>)
         ELSE Node("theme-unknown", <<at(args, 0)>>)
    ELSE Node("theme-current", <<>>)

(* Mutant of notFoundOutput: the token is not echoed *)
notFoundOutput_NoEcho(cmd) == Node("not-found", <<>>)

notFoundOutput(cmd) == Node("not-found", <<cmd>>)

(* the value of `output` when the switch is left by break or default *)
outputOf(cmd, args, projs) ==
    CASE cmd = S_help        -> Node("help", availableCommands)
      [] staticKind(cmd) # "none" /\ cmd # S_help -> Node(staticKind(cmd), <<>>)
      [] cmd = S_projects    -> projectsOutput(projs)
      [] cmd = S_cat         -> catOutput(args)
      [] cmd = S_theme       -> themeOutput(args)
      [] cmd = S_exit        -> Node("exit", <<>>)
      [] OTHER               -> notFoundOutput(cmd)

(* the switch cases that return instead of breaking *)
returnsEarly(cmd) == cmd = S_clear \/ cmd = <<>>

(* Mutant of themeCallsOf: `exit` switches the theme at once *)
themeCallsOf_ExitAtOnce(cmd, args) ==
    IF cmd = S_exit THEN <<T_default>>
    ELSE IF cmd = S_theme /\ themeAccepted(args) THEN <<at(args, 0)>> ELSE <<>>

(* setTheme calls made synchronously by the switch *)
themeCallsOf(cmd, args) ==
    IF cmd = S_theme /\ themeAccepted(args) THEN <<at(args, 0)>> ELSE <<>>

(* setTimeout(() => setTheme('default'), 1000) *)
schedulesExit(cmd) == cmd = S_exit

newCommand(input, projs, t) ==
    [input     |-> input,
     output    |-> outputOf(cmdOf(input), argsOf(input), projs),
     timestamp |-> t]

(* Mutant of commandsAfter: the new entry is put first *)
commandsAfter_Prepends(prev, input, projs, t) ==
    IF cmdOf(input) = S_clear THEN <<>>
    ELSE IF cmdOf(input) = <<>> THEN prev
    ELSE <<newCommand(input, projs, t)>> \o prev

(* Mutant of commandsAfter: `clear` keeps the first (welcome) entry *)
commandsAfter_KeepsFirst(prev, input, projs, t) ==
    IF cmdOf(input) = S_clear THEN SubSeq(prev, 1, 1)
    ELSE IF cmdOf(input) = <<>> THEN prev
    ELSE Append(prev, newCommand(input, projs, t))

(* commands after executeCommand(input) *)
commandsAfter(prev, input, projs, t) ==
    IF cmdOf(input) = S_clear THEN <<>>
    ELSE IF cmdOf(input) = <<>> THEN prev
    ELSE Append(prev, newCommand(input, projs, t))

(* Mutant of historyAfter: only the latest line is kept *)
historyAfter_LatestOnly(prev, input) ==
    IF returnsEarly(cmdOf(input)) THEN prev ELSE <<input>>

(* Mutant of historyAfter: `clear` empties the history as well *)
historyAfter_ClearResets(prev, input) ==
    IF cmdOf(input) = S_clear THEN <<>>
    ELSE IF returnsEarly(cmdOf(input)) THEN prev
    ELSE Append(prev, input)

(* Mutant of historyAfter: the normalized line is recorded *)
historyAfter_Normalized(prev, input) ==
    IF returnsEarly(cmdOf(input)) THEN prev
    ELSE Append(prev, trim(toLowerCase(input)))

(* commandHistory after executeCommand(input) *)
historyAfter(prev, input) ==
    IF returnsEarly(cmdOf(input)) THEN prev ELSE Append(prev, input)

(* Mutant of indexAfter: every command resets the cursor *)
indexAfter_AlwaysResets(prev, input) ==
    IF cmdOf(input) = <<>> THEN prev ELSE -1

(* historyIndex after executeCommand(input) *)
indexAfter(prev, input) ==
    IF returnsEarly(cmdOf(input)) THEN prev ELSE -1

----------------------------------------------------------------------------
(* The environment: what the user types and what the backend returns *)

L_empty == <<>>
L_blank == <<"\t"," ">>
L_clear == <<"c","l","e","a","r">>
L_projects == <<"p","r","o","j","e","c","t","s">>
L_exit == <<"e","x","i","t">>
L_help == <<"h","e","l","p">>
L_cat == <<"c","a","t">>
L_THEME_Magic == <<" ","T","H","E","M","E"," "," "," ","M","a","g","i","c"," ">>
L_theme_tab_magic == <<"t","h","e","m","e","\t","m","a","g","i","c">>
L_cat_README == <<"c","a","t"," ","R","E","A","D","M","E",".","m","d">>
L_cat_Notes == <<"c","a","t"," ","N","o","t","e","s",".","T","X","T">>
L_theme_magic == <<"t","h","e","m","e"," ","m","a","g","i","c">>
L_theme_cmd == <<"t","h","e","m","e"," ","c","m","d">>
L_theme_blue == <<"t","h","e","m","e"," ","b","l","u","e">>
L_Foo_bar == <<" ","F","o","o"," ","b","a","r">>
L_theme_default == <<"t","h","e","m","e"," ","d","e","f","a","u","l","t">>
L_theme_angler == <<"t","h","e","m","e"," ","a","n","g","l","e","r">>

(* blank lines, `clear`, a recognized and an unrecognized command *)
Lines == {L_empty, L_blank, L_clear, L_exit, L_Foo_bar}

(* the `projects` command *)
ProjectsLines == {L_projects, L_clear, L_exit}

(* the `theme` command with every theme and with an unknown one *)
ThemeLines ==
    {L_theme_default, L_theme_angler, L_theme_magic, L_theme_cmd,
     L_theme_blue, L_exit}

(* scenario 1 *)
HelpLines == {L_help, L_exit}

(* scenario 2, with upper-case letters in the file names *)
CatLines == {L_cat, L_cat_README, L_cat_Notes, L_exit}

(* `theme magic` written in four ways *)
ThemeMagicLines ==
    {L_theme_magic, L_THEME_Magic, L_theme_tab_magic, L_exit}

(* `exit` followed by a change of theme within the delay *)
ExitThemeLines == {L_exit, L_theme_magic, L_theme_cmd}

(* `exit` beside a command that calls setTheme itself *)
ExitLines == {L_exit, L_theme_cmd}

Digits == <<"1","2","3","4","5","6","7","8","9">>

title(i) == <<"P", Digits[i]>>

(* response.data of getFeatured: up to MaxProjects projects, by title; the
   backend's order is not the order of the titles *)
ProjectLists ==
    { [i \in 1..k |-> title(k + 1 - i)] : k \in 0..MaxProjects }

----------------------------------------------------------------------------
(* lib/api.ts: the shared axios client *)

(* A promise: pending, fulfilled with a value or rejected with a reason *)
pending == [state |-> "pending", value |-> undefined]

resolve(value) == [state |-> "fulfilled", value |-> value]

reject(reason) == [state |-> "rejected", value |-> reason]

(* The ways a request fails in axios: no connection, the client's timeout,
   a response whose status is not 2xx.  The error is identified by its
   code. *)
ERR_NETWORK == "ERR_NETWORK"
ECONNABORTED == "ECONNABORTED"
ERR_BAD_RESPONSE == "ERR_BAD_RESPONSE"

(* api.interceptors.response.use: (response) => response *)
onFulfilled(response) == resolve(response)

(* Mutant of onRejected: the handler logs and returns nothing, which
   fulfils the caller's promise with undefined *)
onRejected_Swallows(error) == resolve(undefined)

(* api.interceptors.response.use: (error) => { ... return
   Promise.reject(error) } *)
onRejected(error) == reject(error)

(* console.error('API Error:', error) in the same handler *)
apiLog(error) == {<<"API Error:", error>>}

(* What the caller of api.get / api.post receives when the transport
   settles with `outcome` *)
intercepted(outcome) ==
    IF outcome.state = "fulfilled"
    THEN onFulfilled(outcome.value)
    ELSE onRejected(outcome.value)

(* The requests of the page: projectsApi.getAll, projectsApi.getCategories,
   contactApi.send *)
Requests == {"getAll", "getCategories", "send"}

idle == [status |-> "idle", sentAt |-> 0,
         transport |-> pending, delivered |-> pending]

sent(t) == [status |-> "inflight", sentAt |-> t,
            transport |-> pending, delivered |-> pending]

S_all == <<"a","l","l">>
S_web == <<"w","e","b">>

CategoryLists == {<<>>, <<[name |-> S_web, count |-> 1]>>}

(* The response bodies the server may send *)
DataOf(r) ==
    CASE r = "getAll"        -> { [items |-> p] : p \in ProjectLists }
      [] r = "getCategories" -> { [categories |-> c] : c \in CategoryLists }
      [] r = "send"          -> { [message |-> "sent"] }

(* Promise.all: rejected as soon as one is, fulfilled once all are *)
PromiseAll(ps) ==
    IF \E i \in 1..Len(ps) : ps[i].state = "rejected"
    THEN LET i == CHOOSE k \in 1..Len(ps) : ps[k].state = "rejected"
         IN  reject(ps[i].value)
    ELSE IF \A i \in 1..Len(ps) : ps[i].state = "fulfilled"
         THEN resolve([i \in 1..Len(ps) |-> ps[i].value])
         ELSE pending

----------------------------------------------------------------------------
(* Projects section: fetchData after its await has settled with `all` *)

(* Mutant of fetchData: no catch block, the finally block alone *)
fetchData_NoCatch(sec, all) ==
    IF all.state = "fulfilled"
    THEN [section |->
              [projects   |-> all.value[1].data.items,
               categories |-> <<S_all>> \o
                   [i \in 1..Len(all.value[2].data.categories) |->
                       all.value[2].data.categories[i].name],
               loading    |-> FALSE],
          logs |-> {}, thrown |-> {}]
    ELSE [section |-> [sec EXCEPT !.loading = FALSE],
          logs |-> {}, thrown |-> {all.value}]

fetchData(sec, all) ==
    IF all.state = "fulfilled"
    THEN [section |->
              [projects   |-> all.value[1].data.items,
               categories |-> <<S_all>> \o
                   [i \in 1..Len(all.value[2].data.categories) |->
                       all.value[2].data.categories[i].name],
               loading    |-> FALSE],
          logs |-> {}, thrown |-> {}]
    ELSE [section |-> [projects |-> <<>>, categories |-> <<S_all>>,
                       loading |-> FALSE],
          logs |-> {<<"Error fetching projects:", all.value>>},
          thrown |-> {}]

----------------------------------------------------------------------------
(* Contact form *)

FormFields == {"name", "email", "subject", "message"}

emptyForm == [name |-> <<>>, email |-> <<>>, subject |-> <<>>,
              message |-> <<>>]

(* Mutant of afterSend: the form is reset whatever the outcome *)
afterSend_AlwaysResets(data, result) ==
    IF result.state = "fulfilled"
    THEN [submitStatus |-> "success", formData |-> emptyForm,
          isSubmitting |-> FALSE, thrown |-> {}]
    ELSE [submitStatus |-> "error", formData |-> emptyForm,
          isSubmitting |-> FALSE, thrown |-> {}]

(* Contact's handleSubmit after `await contactApi.send(formData)` has
   settled with `result`: try, catch and finally *)
afterSend(data, result) ==
    IF result.state = "fulfilled"
    THEN [submitStatus |-> "success", formData |-> emptyForm,
          isSubmitting |-> FALSE, thrown |-> {}]
    ELSE [submitStatus |-> "error", formData |-> data,
          isSubmitting |-> FALSE, thrown |-> {}]

----------------------------------------------------------------------------
(* Hero section: the typewriter *)

names == << <<"M","a","n","o","T","i","l","t","s">>,
            <<"F","e","l","i","p","e"," ","B","a","r","b","o","s","a">> >>

S_Felipe == <<"F","e","l","i","p","e">>

(* String.prototype.slice(0, end) for end >= 0 *)
sliceTo(s, end) == SubSeq(s, 1, IF end < Len(s) THEN end ELSE Len(s))

(* String.prototype.slice(0, -1) *)
dropLast(s) == SubSeq(s, 1, Len(s) - 1)

(* Mutant of stillTyping: the last letter is never typed *)
stillTyping_OneShort(displayed, currentName) ==
    Len(displayed) < Len(currentName) - 1

(* if (displayedName.length < currentName.length) *)
stillTyping(displayed, currentName) == Len(displayed) < Len(currentName)

(* (prev) => (prev + 1) % names.length *)
nextIndex(prev) == (prev + 1) % Len(names)

(* A pending timer of the Hero: the function it will call and its delay *)
Timer(fn, delay) == [fn |-> fn, delay |-> delay]

NoTimer == Timer("none", 0)

(* const timeout = setTimeout(typewriterEffect, 100), set by the effect
   that runs after every render in the default theme *)
StartTimer == Timer("typewriterEffect", StartDelay)

----------------------------------------------------------------------------
(* State machine *)

(* One invocation of setTheme: its argument, the caller, and whether the
   caller is a session that was mounted when it made the call. *)
Call(theme, by, live) == [theme |-> theme, by |-> by, live |-> live]

(* What the latest step submitted and which setTheme calls it made; NoEvent
   for a step that does neither. *)
Event(op, input, cs) == [op |-> op, input |-> input, calls |-> cs]

NoEvent == Event("none", <<>>, <<>>)

(* A pending fetch whose component is gone can no longer store its result. *)
fetchAfter(theme) ==
    IF fetchStatus = "pending" /\ ~rendersTerminal(theme)
    THEN "abandoned"
    ELSE fetchStatus

(* Mutant of timersAfter: unmounting clears the timers of the session *)
timersAfter_ClearedOnUnmount(ts, theme) ==
    IF rendersTerminal(theme) THEN ts ELSE <<>>

(* The pending timers once the theme is `theme`: no cleanup clears them
   when their session is unmounted, they only stop being its timers. *)
timersAfter(ts, theme) ==
    [i \in 1..Len(ts) |->
        [due |-> ts[i].due, live |-> ts[i].live /\ rendersTerminal(theme)]]

InitWith(ls) ==
    /\ currentTheme = T_default
    /\ commands = <<>>
    /\ currentInput = <<>>
    /\ commandHistory = <<>>
    /\ historyIndex = -1
    /\ projects = <<>>
    /\ fetchStatus = "idle"
    /\ timers = <<>>
    /\ now = 0
    /\ event = NoEvent
    /\ inputs = ls
    /\ section = [projects |-> <<>>, categories |-> <<>>, loading |-> TRUE]
    /\ formData = emptyForm
    /\ isSubmitting = FALSE
    /\ submitStatus = "idle"
    /\ requests = [r \in Requests |->
                      IF r = "send" THEN idle ELSE sent(0)]
    /\ console = {}
    /\ uncaught = {}
    /\ displayedName = <<>>
    /\ isTyping = TRUE
    /\ currentNameIndex = 0
    /\ heroTimer = StartTimer

Init == InitWith(Lines)

(* Mutant of setTheme: the terminal is hidden rather than unmounted, so
   showing it again shows the previous session *)
setTheme_KeepsSession(theme) ==
    /\ ~mounted
    /\ currentTheme' = theme
    /\ IF rendersTerminal(theme)
       THEN /\ commands' = IF commands = <<>>
                           THEN <<welcomeCommand(now)>> ELSE commands
            /\ fetchStatus' = "pending"
            /\ projects' = <<>>
            /\ UNCHANGED <<currentInput, commandHistory, historyIndex>>
       ELSE UNCHANGED <<commands, currentInput, commandHistory,
                        historyIndex, projects, fetchStatus>>
    /\ event' = Event("setTheme", <<>>, <<Call(theme, "page", FALSE)>>)
    /\ UNCHANGED <<timers, now, inputs, pageVars>>

(* ThemeProvider.setTheme called from the page that is rendered while the
   theme is not 'cmd'.  Switching to 'cmd' mounts a TerminalPortfolio: its
   useState initial values, then its two mount effects (the welcome entry
   and the start of the project fetch). *)
setTheme(theme) ==
    /\ ~mounted
    /\ currentTheme' = theme
    /\ IF rendersTerminal(theme)
       THEN /\ commands' = <<welcomeCommand(now)>>
            /\ currentInput' = <<>>
            /\ commandHistory' = <<>>
            /\ historyIndex' = -1
            /\ projects' = <<>>
            /\ fetchStatus' = "pending"
       ELSE UNCHANGED <<commands, currentInput, commandHistory,
                        historyIndex, projects, fetchStatus>>
    /\ event' = Event("setTheme", <<>>, <<Call(theme, "page", FALSE)>>)
    /\ UNCHANGED <<timers, now, inputs, pageVars>>

(* fetchProjects: the request succeeds *)
fetchFulfilled(data) ==
    /\ mounted
    /\ fetchStatus = "pending"
    /\ projects' = data
    /\ fetchStatus' = "fulfilled"
    /\ event' = NoEvent
    /\ UNCHANGED <<currentTheme, commands, currentInput,
                   commandHistory, historyIndex, timers, now, inputs, pageVars>>

(* fetchProjects: the request fails and the catch block stores mock data *)
fetchRejected ==
    /\ mounted
    /\ fetchStatus = "pending"
    /\ projects' = mockProjects
    /\ fetchStatus' = "rejected"
    /\ event' = NoEvent
    /\ UNCHANGED <<currentTheme, commands, currentInput,
                   commandHistory, historyIndex, timers, now, inputs, pageVars>>

(* <input onChange>: the user edits the input buffer *)
onChange(value) ==
    /\ mounted
    /\ currentInput' = value
    /\ event' = NoEvent
    /\ UNCHANGED <<currentTheme, commands, commandHistory,
                   historyIndex, projects, fetchStatus, timers, now, inputs, pageVars>>

(* Bounds on what one more executed command may add *)
canExecute(input) ==
    \/ returnsEarly(cmdOf(input))
    \/ /\ Len(commandHistory) < MaxHistory
       /\ schedulesExit(cmdOf(input)) =>
              /\ Len(timers) < MaxTimers
              /\ now < MaxTicks * ExitDelay

(* Mutant of handleSubmit: the buffer is emptied only when an entry was
   appended *)
handleSubmit_ClearsAfterAppend ==
    /\ mounted
    /\ LET input  == currentInput
           cmd    == cmdOf(input)
           args   == argsOf(input)
           called == themeCallsOf(cmd, args)
           theme  == IF called = <<>> THEN currentTheme ELSE called[1]
       IN  IF trim(input) # <<>>
           THEN /\ canExecute(input)
                /\ commands' = commandsAfter(commands, input, projects, now)
                /\ commandHistory' = historyAfter(commandHistory, input)
                /\ historyIndex' = indexAfter(historyIndex, input)
                /\ currentInput' = IF returnsEarly(cmd) THEN input ELSE <<>>
                /\ timers' = timersAfter(
                                 IF schedulesExit(cmd)
                                 THEN Append(timers, [due |-> now + ExitDelay,
                                                      live |-> TRUE])
                                 ELSE timers, theme)
                /\ currentTheme' = theme
                /\ fetchStatus' = fetchAfter(theme)
                /\ event' = Event("handleSubmit", input,
                                  [i \in 1..Len(called) |->
                                      Call(called[i], "command", TRUE)])
           ELSE /\ event' = Event("handleSubmit", input, <<>>)
                /\ UNCHANGED <<currentTheme, commands, currentInput,
                               commandHistory, historyIndex, fetchStatus,
                               timers>>
    /\ UNCHANGED <<projects, now, inputs, pageVars>>

(* <form onSubmit>: handleSubmit, with executeCommand(currentInput) *)
handleSubmit ==
    /\ mounted
    /\ LET input  == currentInput
           cmd    == cmdOf(input)
           args   == argsOf(input)
           called == themeCallsOf(cmd, args)
           theme  == IF called = <<>> THEN currentTheme ELSE called[1]
       IN  IF trim(input) # <<>>
           THEN /\ canExecute(input)
                /\ commands' = commandsAfter(commands, input, projects, now)
                /\ commandHistory' = historyAfter(commandHistory, input)
                /\ historyIndex' = indexAfter(historyIndex, input)
                /\ currentInput' = <<>>
                /\ timers' = timersAfter(
                                 IF schedulesExit(cmd)
                                 THEN Append(timers, [due |-> now + ExitDelay,
                                                      live |-> TRUE])
                                 ELSE timers, theme)
                /\ currentTheme' = theme
                /\ fetchStatus' = fetchAfter(theme)
                /\ event' = Event("handleSubmit", input,
                                  [i \in 1..Len(called) |->
                                      Call(called[i], "command", TRUE)])
           ELSE /\ event' = Event("handleSubmit", input, <<>>)
                /\ UNCHANGED <<currentTheme, commands, currentInput,
                               commandHistory, historyIndex, fetchStatus,
                               timers>>
    /\ UNCHANGED <<projects, now, inputs, pageVars>>

(* Mutant of canRecallPrevious: off by one *)
canRecallPrevious_OffByOne(index, history) == index <= Len(history) - 1

(* if (historyIndex < commandHistory.length - 1) *)
canRecallPrevious(index, history) == index < Len(history) - 1

(* Mutant of ArrowUp: the history is indexed from its oldest entry *)
ArrowUp_FromOldest ==
    /\ mounted
    /\ IF canRecallPrevious(historyIndex, commandHistory)
       THEN /\ historyIndex' = historyIndex + 1
            /\ currentInput' = at(commandHistory, historyIndex + 1)
       ELSE UNCHANGED <<historyIndex, currentInput>>
    /\ event' = Event("ArrowUp", <<>>, <<>>)
    /\ UNCHANGED <<currentTheme, commands, commandHistory, projects,
                   fetchStatus, timers, now, inputs, pageVars>>

(* Mutant of ArrowUp: the recalled line is executed as well *)
ArrowUp_Executes ==
    /\ mounted
    /\ canRecallPrevious(historyIndex, commandHistory)
    /\ historyIndex' = historyIndex + 1
    /\ currentInput' =
           at(commandHistory, Len(commandHistory) - 1 - (historyIndex + 1))
    /\ commands' = commandsAfter(commands, currentInput', projects, now)
    /\ event' = Event("ArrowUp", <<>>, <<>>)
    /\ UNCHANGED <<currentTheme, commandHistory, projects,
                   fetchStatus, timers, now, inputs, pageVars>>

(* handleKeyDown, e.key === "ArrowUp" *)
ArrowUp ==
    /\ mounted
    /\ IF canRecallPrevious(historyIndex, commandHistory)
       THEN /\ historyIndex' = historyIndex + 1
            /\ currentInput' =
                   at(commandHistory, Len(commandHistory) - 1 - (historyIndex + 1))
       ELSE UNCHANGED <<historyIndex, currentInput>>
    /\ event' = Event("ArrowUp", <<>>, <<>>)
    /\ UNCHANGED <<currentTheme, commands, commandHistory, projects,
                   fetchStatus, timers, now, inputs, pageVars>>

(* Mutant of ArrowDown: leaving the history keeps the recalled text *)
ArrowDown_KeepsText ==
    /\ mounted
    /\ IF historyIndex > 0
       THEN /\ historyIndex' = historyIndex - 1
            /\ currentInput' =
                   at(commandHistory, Len(commandHistory) - 1 - (historyIndex - 1))
       ELSE IF historyIndex = 0
            THEN /\ historyIndex' = -1
                 /\ UNCHANGED currentInput
            ELSE UNCHANGED <<historyIndex, currentInput>>
    /\ event' = Event("ArrowDown", <<>>, <<>>)
    /\ UNCHANGED <<currentTheme, commands, commandHistory, projects,
                   fetchStatus, timers, now, inputs, pageVars>>

(* handleKeyDown, e.key === "ArrowDown" *)
ArrowDown ==
    /\ mounted
    /\ IF historyIndex > 0
       THEN /\ historyIndex' = historyIndex - 1
            /\ currentInput' =
                   at(commandHistory, Len(commandHistory) - 1 - (historyIndex - 1))
       ELSE IF historyIndex = 0
            THEN /\ historyIndex' = -1
                 /\ currentInput' = <<>>
            ELSE UNCHANGED <<historyIndex, currentInput>>
    /\ event' = Event("ArrowDown", <<>>, <<>>)
    /\ UNCHANGED <<currentTheme, commands, commandHistory, projects,
                   fetchStatus, timers, now, inputs, pageVars>>

(* The "Exit Terminal" button: onClick={() => setTheme('default')} *)
exitButton ==
    /\ mounted
    /\ currentTheme' = T_default
    /\ fetchStatus' = fetchAfter(T_default)
    /\ timers' = timersAfter(timers, T_default)
    /\ event' = Event("exitButton", <<>>, <<Call(T_default, "button", TRUE)>>)
    /\ UNCHANGED <<commands, currentInput, commandHistory,
                   historyIndex, projects, now, inputs, pageVars>>

(* The callback of `exit` runs when its delay has elapsed.  Nothing clears
   the timer, so it runs whether or not its session is still mounted. *)
timeout ==
    /\ timers # <<>>
    /\ Head(timers).due <= now
    /\ timers' = timersAfter(Tail(timers), T_default)
    /\ currentTheme' = T_default
    /\ fetchStatus' = fetchAfter(T_default)
    /\ event' = Event("timeout", <<>>,
                      <<Call(T_default, "timer", Head(timers).live)>>)
    /\ UNCHANGED <<commands, currentInput, commandHistory,
                   historyIndex, projects, now, inputs, pageVars>>

(* Time passes, but not past a timer that is due. *)
tick ==
    /\ now < MaxTicks * ExitDelay
    /\ \A i \in 1..Len(timers) : timers[i].due > now
    /\ now' = now + ExitDelay
    /\ event' = NoEvent
    /\ UNCHANGED <<currentTheme, commands, currentInput,
                   commandHistory, historyIndex, projects, fetchStatus,
                   timers, inputs, pageVars>>

Next ==
    \/ \E theme \in Theme : setTheme(theme)
    \/ \E data \in ProjectLists : fetchFulfilled(data)
    \/ fetchRejected
    \/ \E value \in inputs : onChange(value)
    \/ handleSubmit
    \/ ArrowUp
    \/ ArrowDown
    \/ exitButton
    \/ timeout
    \/ tick

Spec == Init /\ [][Next]_vars

InitProjects == InitWith(ProjectsLines)

SpecProjects == InitProjects /\ [][Next]_vars

InitTheme == InitWith(ThemeLines)

SpecTheme == InitTheme /\ [][Next]_vars

InitHelp == InitWith(HelpLines)

SpecHelp == InitHelp /\ [][Next]_vars

InitCat == InitWith(CatLines)

SpecCat == InitCat /\ [][Next]_vars

InitThemeMagic == InitWith(ThemeMagicLines)

SpecThemeMagic == InitThemeMagic /\ [][Next]_vars

InitExit == InitWith(ExitLines)

(* The browser runs a timer callback once its delay has elapsed, and time
   passes. *)
SpecExit == InitExit /\ [][Next]_vars /\ WF_vars(timeout) /\ WF_vars(tick)

----------------------------------------------------------------------------
(* The page: the Projects section and the Contact form *)

FieldValues == {<<>>, <<"x">>}

(* The transport of request r settles with `outcome`: the response
   interceptor runs, then the async function awaiting the request resumes *)
settle(r, outcome) ==
    LET delivered == intercepted(outcome)
        reqs  == [requests EXCEPT
                     ![r] = [status |-> "settled", sentAt |-> @.sentAt,
                             transport |-> outcome, delivered |-> delivered]]
        was   == PromiseAll(<<requests["getAll"].delivered,
                              requests["getCategories"].delivered>>)
        all   == PromiseAll(<<reqs["getAll"].delivered,
                              reqs["getCategories"].delivered>>)
        apilogs == IF outcome.state = "rejected"
                   THEN apiLog(outcome.value) ELSE {}
    IN  /\ requests' = reqs
        /\ IF r = "send"
           THEN LET after == afterSend(formData, delivered)
                IN  /\ submitStatus' = after.submitStatus
                    /\ formData' = after.formData
                    /\ isSubmitting' = after.isSubmitting
                    /\ uncaught' = uncaught \cup after.thrown
                    /\ console' = console \cup apilogs
                    /\ UNCHANGED section
           ELSE IF was.state = "pending" /\ all.state # "pending"
                THEN LET after == fetchData(section, all)
                     IN  /\ section' = after.section
                         /\ console' = console \cup apilogs \cup after.logs
                         /\ uncaught' = uncaught \cup after.thrown
                         /\ UNCHANGED <<formData, isSubmitting, submitStatus>>
                ELSE /\ console' = console \cup apilogs
                     /\ UNCHANGED <<section, formData, isSubmitting,
                                    submitStatus, uncaught>>

(* The server answers request r with a 2xx response before the timeout *)
respond(r, data) ==
    /\ requests[r].status = "inflight"
    /\ now < requests[r].sentAt + ApiTimeout
    /\ settle(r, resolve([data |-> data]))
    /\ UNCHANGED <<terminalVars, heroVars, now>>

(* Request r fails before the timeout: no connection, or a response whose
   status is not 2xx *)
fail(r, error) ==
    /\ requests[r].status = "inflight"
    /\ now < requests[r].sentAt + ApiTimeout
    /\ settle(r, reject(error))
    /\ UNCHANGED <<terminalVars, heroVars, now>>

(* timeout: 10000 -- no response within the client's timeout *)
requestTimeout(r) ==
    /\ requests[r].status = "inflight"
    /\ now >= requests[r].sentAt + ApiTimeout
    /\ settle(r, reject(ECONNABORTED))
    /\ UNCHANGED <<terminalVars, heroVars, now>>

(* Time passes on the page, but not past the timeout of a request *)
elapse ==
    /\ now < MaxTicks * ApiTimeout
    /\ \A r \in Requests :
           requests[r].status = "inflight" =>
               requests[r].sentAt + ApiTimeout > now
    /\ now' = now + ApiTimeout
    /\ UNCHANGED <<terminalVars, pageVars>>

(* Contact: handleInputChange *)
handleInputChange(name, value) ==
    /\ formData' = [formData EXCEPT ![name] = value]
    /\ UNCHANGED <<terminalVars, heroVars, now, section, isSubmitting, submitStatus,
                   requests, console, uncaught>>

(* Mutant of Contact_handleSubmit: the previous banner is kept *)
Contact_handleSubmit_KeepsBanner ==
    /\ ~isSubmitting
    /\ \A f \in FormFields : formData[f] # <<>>
    /\ isSubmitting' = TRUE
    /\ requests' = [requests EXCEPT !["send"] = sent(now)]
    /\ UNCHANGED <<terminalVars, heroVars, now, section, formData, submitStatus,
                   console, uncaught>>

(* Contact: <form onSubmit={handleSubmit}> up to its await.  The browser
   submits only when every `required` field is filled in and the submit
   button is not disabled. *)
Contact_handleSubmit ==
    /\ ~isSubmitting
    /\ \A f \in FormFields : formData[f] # <<>>
    /\ isSubmitting' = TRUE
    /\ submitStatus' = "idle"
    /\ requests' = [requests EXCEPT !["send"] = sent(now)]
    /\ UNCHANGED <<terminalVars, heroVars, now, section, formData, console, uncaught>>

NextPage ==
    \/ \E r \in Requests : \E data \in DataOf(r) : respond(r, data)
    \/ \E r \in Requests : \E error \in {ERR_NETWORK, ERR_BAD_RESPONSE} :
           fail(r, error)
    \/ \E r \in Requests : requestTimeout(r)
    \/ elapse
    \/ \E name \in FormFields : \E value \in FieldValues :
           handleInputChange(name, value)
    \/ Contact_handleSubmit

SpecPage == Init /\ [][NextPage]_vars

InitExitTheme == InitWith(ExitThemeLines)

SpecExitTheme ==
    InitExitTheme /\ [][Next]_vars /\ WF_vars(timeout) /\ WF_vars(tick)

(* The request of a contact submission settles: with a response, with an
   error, or by the client's timeout. *)
sendSettles ==
    \/ \E data \in DataOf("send") : respond("send", data)
    \/ \E error \in {ERR_NETWORK, ERR_BAD_RESPONSE} : fail("send", error)
    \/ requestTimeout("send")

SpecPageFair == Init /\ [][NextPage]_vars /\ WF_vars(sendSettles)

----------------------------------------------------------------------------
(* The Hero section, which is rendered while the theme is not 'cmd' *)

(* The timer of the effect fires: typewriterEffect runs with the state of
   the render that created it.  In its last branch it sets state itself,
   and the render that follows starts the effect's timer again. *)
typewriterEffect ==
    /\ heroTimer.fn = "typewriterEffect"
    /\ currentTheme = T_default
    /\ LET currentName == names[currentNameIndex + 1]
       IN  IF isTyping
           THEN /\ heroTimer' = IF stillTyping(displayedName, currentName)
                                THEN Timer("type", TypeDelay)
                                ELSE Timer("pause", PauseDelay)
                /\ UNCHANGED <<displayedName, isTyping, currentNameIndex>>
           ELSE IF Len(displayedName) > 0
                THEN /\ heroTimer' = Timer("erase", EraseDelay)
                     /\ UNCHANGED <<displayedName, isTyping,
                                    currentNameIndex>>
                ELSE /\ currentNameIndex' = nextIndex(currentNameIndex)
                     /\ isTyping' = TRUE
                     /\ heroTimer' = StartTimer
                     /\ UNCHANGED displayedName
    /\ UNCHANGED <<terminalVars, now, section, formData, isSubmitting,
                   submitStatus, requests, console, uncaught>>

(* The timer held in timeoutRef fires: its callback sets state, and the
   render that follows starts the effect's timer again. *)
timeoutRefFires ==
    /\ heroTimer.fn \in {"type", "pause", "erase"}
    /\ LET currentName == names[currentNameIndex + 1]
       IN  CASE heroTimer.fn = "type" ->
                    /\ displayedName' =
                           sliceTo(currentName, Len(displayedName) + 1)
                    /\ UNCHANGED <<isTyping, currentNameIndex>>
             [] heroTimer.fn = "pause" ->
                    /\ isTyping' = FALSE
                    /\ UNCHANGED <<displayedName, currentNameIndex>>
             [] heroTimer.fn = "erase" ->
                    /\ displayedName' = dropLast(displayedName)
                    /\ UNCHANGED <<isTyping, currentNameIndex>>
    /\ heroTimer' = StartTimer
    /\ UNCHANGED <<terminalVars, now, section, formData, isSubmitting,
                   submitStatus, requests, console, uncaught>>

(* The theme changes while the Hero is rendered: the cleanup of the effect
   clears both timers, then the two effects that depend on currentTheme
   run and the render that follows their updates starts the timer again in
   the default theme. *)
heroThemeChange(theme) ==
    /\ ~rendersTerminal(currentTheme)
    /\ ~rendersTerminal(theme)
    /\ theme # currentTheme
    /\ currentTheme' = theme
    /\ IF theme = T_default
       THEN /\ displayedName' = <<>>
            /\ currentNameIndex' = 0
            /\ isTyping' = TRUE
            /\ heroTimer' = StartTimer
       ELSE /\ displayedName' = S_Felipe
            /\ heroTimer' = NoTimer
            /\ UNCHANGED <<isTyping, currentNameIndex>>
    /\ UNCHANGED <<commands, currentInput, commandHistory, historyIndex,
                   projects, fetchStatus, timers, event, inputs, now,
                   section, formData, isSubmitting, submitStatus, requests,
                   console, uncaught>>

NextHero ==
    \/ typewriterEffect
    \/ timeoutRefFires
    \/ \E theme \in Theme : heroThemeChange(theme)

(* The browser runs a timer callback once its delay has elapsed. *)
SpecHero ==
    Init /\ [][NextHero]_vars
         /\ WF_vars(typewriterEffect) /\ WF_vars(timeoutRefFires)

TypeOK ==
    /\ currentTheme \in Theme
    /\ historyIndex \in -1..MaxHistory
    /\ Len(commandHistory) <= MaxHistory
    /\ Len(timers) <= MaxTimers
    /\ fetchStatus \in {"idle", "pending", "fulfilled", "rejected", "abandoned"}

----------------------------------------------------------------------------
(* Vocabulary of the properties *)

Last(seq) == seq[Len(seq)]

IsBlank(line) == \A i \in 1..Len(line) : line[i] \in WhiteSpace

(* The leading token of a line: the lower-cased line without its leading
   white space, up to the first space. *)
LeadingToken(line) ==
    LET t == trimStart(toLowerCase(line))
        n == IF \E i \in 1..Len(t) : t[i] \in WhiteSpace
             THEN (CHOOSE k \in 1..Len(t) :
                       t[k] \in WhiteSpace
                       /\ \A j \in 1..(k - 1) : t[j] \notin WhiteSpace) - 1
             ELSE Len(t)
    IN  SubSeq(t, 1, n)

CommandNames == { availableCommands[i] : i \in 1..Len(availableCommands) }

(* the step is a submission of the line in the input buffer *)
Submits == event'.op = "handleSubmit" /\ event'.input = currentInput

(* the state follows the submission of `line` *)
Submitted(line) == event.op = "handleSubmit" /\ event.input = line

S_blue == <<"b","l","u","e">>

ThemeLine(x) == S_theme \o <<" ">> \o x

----------------------------------------------------------------------------
(* C1: a terminal session that has been unmounted never invokes setTheme:
   the callback scheduled by `exit` is cancelled when its session is torn
   down before the delay elapses.  The code never clears the timer. *)
C1_ExitCallbackCancelledOnUnmount ==
    \A i \in 1..Len(event.calls) :
        event.calls[i].by = "timer" => event.calls[i].live

(* C2: after `clear` is submitted the Session Log is empty and Input History
   contains the submitted line.  The code returns before recording it. *)
C2_ClearIsRecorded ==
    \A line \in inputs :
        (Submitted(line) /\ LeadingToken(line) = S_clear)
            => commands = <<>> /\ includes(commandHistory, line)

(* C3: in every state of a mounted terminal the recall cursor is at least -1
   and at most length(Input History) - 1. *)
C3_CursorInRange ==
    mounted =>
        /\ historyIndex >= -1
        /\ historyIndex <= Len(commandHistory) - 1

C3_Witness ==
    /\ mounted
    /\ Len(commandHistory) = 2
    /\ historyIndex = 1
    /\ includes(commandHistory, L_Foo_bar)

(* C4, as claimed: `projects` executed while the fetch is pending or has
   failed outputs the loading placeholder. *)
C4_LoadingWhenPendingOrFailed ==
    (Submitted(L_projects) /\ fetchStatus \in {"pending", "rejected"})
        => Last(commands).output = Node("loading", <<>>)

(* C4, amended: `projects` outputs the loading placeholder exactly when the
   cache is empty, which it is while the fetch is pending and when the fetch
   returned no project; after a failed fetch the cache holds the two mock
   projects and the output lists them. *)
C4_LoadingWhenCacheEmpty ==
    Submitted(L_projects) =>
        /\ projects = <<>> => Last(commands).output = Node("loading", <<>>)
        /\ projects # <<>> => Last(commands).output = Node("projects", projects)
        /\ fetchStatus = "pending" => projects = <<>>
        /\ fetchStatus = "rejected" =>
               Last(commands).output = Node("projects", mockProjects)

C4_Witness ==
    /\ Submitted(L_projects)
    /\ fetchStatus = "pending"
    /\ Last(commands).output = Node("loading", <<>>)

(* C5: `theme x` with x one of the four themes calls setTheme exactly once,
   with x, and appends a confirmation entry; with any other argument x it
   calls setTheme not at all and appends an error entry. *)
C5_ThemeCommand ==
    [][\A x \in Theme \cup {S_blue} :
          (Submits /\ currentInput = ThemeLine(x)) =>
              /\ event'.calls =
                     IF x \in {T_default, T_angler, T_magic, T_cmd}
                     THEN <<Call(x, "command", TRUE)>>
                     ELSE <<>>
              /\ currentTheme' =
                     IF x \in {T_default, T_angler, T_magic, T_cmd}
                     THEN x
                     ELSE currentTheme
              /\ commands' =
                     Append(commands,
                            [input |-> currentInput,
                             output |->
                                 IF x \in {T_default, T_angler, T_magic, T_cmd}
                                 THEN Node("theme-switched", <<x>>)
                                 ELSE Node("theme-unknown", <<x>>),
                             timestamp |-> now])]_vars

C5_Witness ==
    /\ Submitted(L_theme_magic)
    /\ event.calls = <<Call(T_magic, "command", TRUE)>>
    /\ currentTheme = T_magic
    /\ Last(commands).output = Node("theme-switched", <<T_magic>>)

(* C6: submitting an empty or white-space-only line changes neither the
   Session Log nor Input History nor the recall cursor. *)
C6_BlankSubmitIsNoOp ==
    [][(Submits /\ IsBlank(currentInput)) =>
           UNCHANGED <<commands, commandHistory, historyIndex>>]_vars

C6_Witness ==
    /\ Submitted(L_blank)
    /\ Len(commandHistory) = 1
    /\ historyIndex = 0
    /\ currentInput = L_blank

(* C7: submitting a non-blank line whose leading token is not a command name
   appends exactly one entry, the "command not found" output echoing the
   token, and the terminal stays mounted. *)
C7_UnknownCommand ==
    [][(Submits /\ ~IsBlank(currentInput)
        /\ LeadingToken(currentInput) \notin CommandNames) =>
           /\ commands' =
                  Append(commands,
                         [input |-> currentInput,
                          output |-> Node("not-found",
                                          <<LeadingToken(currentInput)>>),
                          timestamp |-> now])
           /\ currentTheme' = currentTheme
           /\ mounted']_vars

C7_Witness ==
    /\ Submitted(L_Foo_bar)
    /\ mounted
    /\ Last(commands).output = Node("not-found", <<<<"f","o","o">>>>)

(* C8: `clear` leaves the Session Log empty whatever it held, appending
   nothing for itself, and an empty log of a mounted terminal stays empty
   until a submitted command other than `clear` appends one entry. *)
C8_ClearEmptiesLog ==
    [][/\ (Submits /\ LeadingToken(currentInput) = S_clear) => commands' = <<>>
       /\ (mounted /\ commands = <<>> /\ commands' # <<>>) =>
              /\ Submits
              /\ ~IsBlank(currentInput)
              /\ LeadingToken(currentInput) # S_clear
              /\ Len(commands') = 1]_vars

C8_Witness ==
    /\ Submitted(L_clear)
    /\ commands = <<>>
    /\ Len(commandHistory) = 2
    /\ mounted

(* C9: every submitted non-empty command extends Input History by exactly
   that string, so that N submissions leave the N strings in submission
   order, and each recallPrevious then stages the next older one.  `clear`
   is a non-empty command the code does not record (see C2). *)
C9_HistoryRoundTrip ==
    [][/\ (Submits /\ ~IsBlank(currentInput)) =>
              commandHistory' = Append(commandHistory, currentInput)
       /\ (mounted /\ historyIndex' = historyIndex + 1) =>
              currentInput' =
                  commandHistory[Len(commandHistory) - historyIndex']]_vars

(* C10: every dispatch of a non-blank command other than `clear`, recognized
   or not, appends one entry with the raw input, the output of its handler
   and the current time, appends the raw input to Input History and resets
   the recall cursor to -1. *)
C10_Dispatch ==
    [][(Submits /\ ~IsBlank(currentInput)
        /\ LeadingToken(currentInput) # S_clear) =>
           /\ Len(commands') = Len(commands) + 1
           /\ SubSeq(commands', 1, Len(commands)) = commands
           /\ Last(commands').input = currentInput
           /\ Last(commands').timestamp = now
           /\ (Last(commands').output.kind = "not-found")
                  <=> (LeadingToken(currentInput) \notin CommandNames)
           /\ commandHistory' = Append(commandHistory, currentInput)
           /\ historyIndex' = -1]_vars

C10_Witness ==
    /\ Submitted(L_Foo_bar)
    /\ commandHistory = <<L_exit, L_Foo_bar>>
    /\ Last(commands).input = L_Foo_bar
    /\ Last(commands).timestamp = ExitDelay
    /\ historyIndex = -1

----------------------------------------------------------------------------
(* C11: `exit` appends its transition entry at once and calls setTheme not
   at all in that step; it schedules one callback, which calls
   setTheme('default') once, when the 1000 ms have elapsed, and every
   scheduled callback does eventually run.  No other command schedules
   anything, and no other setTheme call comes from a timer. *)
C11_ExitIsDeferred ==
    /\ [][/\ (Submits /\ LeadingToken(currentInput) = S_exit) =>
                 /\ event'.calls = <<>>
                 /\ currentTheme' = currentTheme
                 /\ commands' = Append(commands,
                                       [input |-> currentInput,
                                        output |-> Node("exit", <<>>),
                                        timestamp |-> now])
                 /\ timers' = Append(timers, [due |-> now + 1000,
                                              live |-> TRUE])
          /\ (Submits /\ LeadingToken(currentInput) # S_exit) =>
                 /\ Len(timers') = Len(timers)
                 /\ \A i \in 1..Len(event'.calls) :
                        event'.calls[i].by = "command"
          /\ (Len(timers') < Len(timers)) =>
                 /\ now = timers[1].due
                 /\ Len(timers') = Len(timers) - 1
                 /\ Len(event'.calls) = 1
                 /\ event'.calls[1].theme = T_default
                 /\ event'.calls[1].by = "timer"
                 /\ currentTheme' = T_default
          /\ (\E i \in 1..Len(event'.calls) : event'.calls[i].by = "timer")
                 => Len(timers') < Len(timers)]_vars
    /\ (timers # <<>>) ~> (event.op = "timeout")

C11_Witness ==
    /\ event.op = "timeout"
    /\ event.calls = <<Call(T_default, "timer", TRUE)>>
    /\ Len(commands) = 2
    /\ commands[2].output = Node("exit", <<>>)
    /\ commands[2].timestamp = 0
    /\ now = 1000

----------------------------------------------------------------------------
(* C12: ArrowUp and ArrowDown change nothing but the recall cursor and the
   input buffer: the Session Log, the Input History, the theme, the pending
   timers and the project cache stay as they are, and no setTheme call is
   made. *)
C12_RecallFrame ==
    [][(event'.op \in {"ArrowUp", "ArrowDown"}) =>
           /\ UNCHANGED <<commands, commandHistory, currentTheme, timers,
                          projects, fetchStatus>>
           /\ event'.calls = <<>>]_vars

C12_Witness ==
    /\ event.op = "ArrowUp"
    /\ historyIndex = 0
    /\ commandHistory # <<>>
    /\ currentInput = Last(commandHistory)
    /\ currentInput # <<>>

----------------------------------------------------------------------------
(* C13: a `projects` submission is executed in its own step whatever the
   state of the mount-time fetch, which it neither waits for nor changes;
   once the fetch has resolved the cache stays what the fetch delivered for
   as long as the terminal is mounted, and every `projects` execution with a
   cache of k >= 1 projects lists exactly those k titles, in order. *)
C13_ProjectsDoNotBlock ==
    [][/\ (Submits /\ LeadingToken(currentInput) = S_projects) =>
              /\ UNCHANGED <<projects, fetchStatus>>
              /\ Len(commands') = Len(commands) + 1
              /\ Last(commands').input = currentInput
              /\ Len(projects) >= 1 =>
                     /\ Last(commands').output.kind = "projects"
                     /\ Last(commands').output.args = projects
       /\ (fetchStatus = "fulfilled" /\ mounted /\ mounted') =>
              UNCHANGED projects
       /\ (fetchStatus = "pending" /\ fetchStatus' = "fulfilled") =>
              /\ projects' \in ProjectLists
              /\ UNCHANGED commands]_vars

C13_Witness ==
    /\ Submitted(L_projects)
    /\ fetchStatus = "fulfilled"
    /\ projects = <<title(2), title(1)>>
    /\ Len(commands) = 3
    /\ commands[2].output = Node("loading", <<>>)
    /\ commands[3].output = Node("projects", <<title(2), title(1)>>)

----------------------------------------------------------------------------
(* C14: the step that mounts the terminal leaves a Session Log of exactly
   the welcome entry, whose input is empty, an empty Input History and the
   recall cursor at -1; `help` submitted as the first command makes the log
   exactly welcome followed by help, and the help entry lists the 17 names
   of the registry, each once. *)
C14_MountThenHelp ==
    [][/\ (~mounted /\ mounted') =>
              /\ Len(commands') = 1
              /\ commands'[1].input = <<>>
              /\ commands'[1].output.kind = "welcome"
              /\ commandHistory' = <<>>
              /\ historyIndex' = -1
       /\ (Submits /\ currentInput = L_help /\ commandHistory = <<>>) =>
              /\ Len(commands') = 2
              /\ commands'[1] = commands[1]
              /\ commands'[1].output.kind = "welcome"
              /\ commands'[2].input = L_help
              /\ commands'[2].output.kind = "help"
              /\ Len(commands'[2].output.args) = 17
              /\ { commands'[2].output.args[i] : i \in 1..17 } =
                     { <<"h","e","l","p">>, <<"a","b","o","u","t">>,
                       <<"s","k","i","l","l","s">>,
                       <<"p","r","o","j","e","c","t","s">>,
                       <<"c","o","n","t","a","c","t">>,
                       <<"e","x","p","e","r","i","e","n","c","e">>,
                       <<"e","d","u","c","a","t","i","o","n">>,
                       <<"c","l","e","a","r">>, <<"w","h","o","a","m","i">>,
                       <<"l","s">>, <<"c","a","t">>,
                       <<"n","e","o","f","e","t","c","h">>,
                       <<"t","r","e","e">>, <<"p","w","d">>,
                       <<"d","a","t","e">>, <<"t","h","e","m","e">>,
                       <<"e","x","i","t">> }]_vars

C14_Witness ==
    /\ Submitted(L_help)
    /\ Len(commands) = 2
    /\ commands[1].output.kind = "welcome"
    /\ commands[2].output.kind = "help"
    /\ Len(commands[2].output.args) = 17
    /\ commandHistory = <<L_help>>

----------------------------------------------------------------------------
(* The first argument of a submitted line, as the user typed it *)
GivenArgument(line) == at(split(trim(line), " "), 1)

(* C15: after a `cat` submission the new entry shows the readme when the
   argument, compared without regard to case, is readme.md; for any other
   argument a it shows `cat: a: No such file or directory` with a as it was
   typed, and with no argument the same error with `filename`; exactly one
   entry was appended. *)
C15_CatEchoesArgumentAsGiven ==
    [][(Submits /\ LeadingToken(currentInput) = S_cat) =>
           LET a == GivenArgument(currentInput)
           IN  /\ commands' = Append(commands, Last(commands'))
               /\ Last(commands').input = currentInput
               /\ Last(commands').output =
                      IF a = undefined
                      THEN Node("cat-error", <<S_filename>>)
                      ELSE IF toLowerCase(a) = S_readme
                           THEN Node("readme", <<>>)
                           ELSE Node("cat-error", <<a>>)]_vars

----------------------------------------------------------------------------
(* C16: while the terminal is mounted every step leaves the Session Log
   unchanged, or appends one entry at its end and keeps the earlier entries
   as they were, or is a `clear` submission and leaves the log empty; in
   particular the completion of the fetch rewrites no entry. *)
C16_LogAppendOnly ==
    [][mounted =>
           \/ UNCHANGED commands
           \/ /\ Submits
              /\ Len(commands') = Len(commands) + 1
              /\ SubSeq(commands', 1, Len(commands)) = commands
           \/ /\ Submits
              /\ LeadingToken(currentInput) = S_clear
              /\ commands' = <<>>]_vars

C16_Witness ==
    /\ mounted
    /\ fetchStatus = "fulfilled"
    /\ Len(projects) = 1
    /\ Len(commands) = 3
    /\ commands[2].input = L_projects
    /\ commands[2].output = Node("loading", <<>>)
    /\ commands[3].input = L_projects
    /\ commands[3].output = Node("projects", projects)

----------------------------------------------------------------------------
(* C17: while the terminal is mounted every step leaves the Input History
   unchanged or appends exactly one string, the submitted line, at its
   end. *)
C17_HistoryNeverShrinks ==
    [][mounted =>
           \/ UNCHANGED commandHistory
           \/ /\ Submits
              /\ commandHistory' = Append(commandHistory, currentInput)]_vars

C17_Witness ==
    /\ Submitted(L_clear)
    /\ Len(commandHistory) = 2
    /\ commands = <<>>

----------------------------------------------------------------------------
(* A request of the page has failed: its transport settled with an error *)
Failed(r) ==
    requests[r].status = "settled" /\ requests[r].transport.state = "rejected"

(* C18: a request through the api client that fails, by a transport error,
   by the 10-second timeout or by a server error response, is delivered to
   its caller as a rejection whose reason is that same error, and the error
   has been logged; the timeout strikes 10000 ms after the request was
   sent. *)
C18_FailuresAreRejected ==
    /\ [](\A r \in Requests :
              Failed(r) =>
                  /\ requests[r].transport.value
                         \in {"ERR_NETWORK", "ECONNABORTED", "ERR_BAD_RESPONSE"}
                  /\ requests[r].delivered.state = "rejected"
                  /\ requests[r].delivered.value = requests[r].transport.value
                  /\ <<"API Error:", requests[r].transport.value>> \in console)
    /\ [][\A r \in Requests :
              (~Failed(r) /\ Failed(r)'
                  /\ requests'[r].transport.value = "ECONNABORTED") =>
                  now = requests[r].sentAt + 10000]_vars

C18_Witness ==
    /\ Failed("getAll") /\ Failed("getCategories") /\ Failed("send")
    /\ requests["getAll"].delivered = reject("ERR_NETWORK")
    /\ requests["getCategories"].delivered = reject("ECONNABORTED")
    /\ requests["send"].delivered = reject("ERR_BAD_RESPONSE")

----------------------------------------------------------------------------
(* C19: once the project-list request or the category-list request of the
   Projects section has failed, the section shows no project, the single
   category 'all' and is not loading, and nothing was thrown out of
   fetchData; once both requests have settled, with whatever outcome, the
   section is not loading. *)
C19_ProjectsFallback ==
    /\ (Failed("getAll") \/ Failed("getCategories")) =>
           /\ section.projects = <<>>
           /\ section.categories = << <<"a","l","l">> >>
           /\ section.loading = FALSE
    /\ (requests["getAll"].status = "settled"
            /\ requests["getCategories"].status = "settled") =>
           section.loading = FALSE
    /\ uncaught = {}

C19_Witness ==
    /\ requests["getAll"].status = "settled"
    /\ requests["getAll"].transport.state = "fulfilled"
    /\ Len(requests["getAll"].transport.value.data.items) = 2
    /\ Failed("getCategories")
    /\ section = [projects |-> <<>>, categories |-> <<S_all>>,
                  loading |-> FALSE]

----------------------------------------------------------------------------
(* C20: the step in which the request of a contact submission fails sets
   submitStatus to 'error', leaves the form data as it is, sets
   isSubmitting to false and throws nothing; the step in which it succeeds
   sets submitStatus to 'success', empties the four fields and sets
   isSubmitting to false. *)
C20_ContactSubmission ==
    [][(requests["send"].status = "inflight"
            /\ requests'["send"].status = "settled") =>
           /\ isSubmitting
           /\ isSubmitting' = FALSE
           /\ uncaught' = {}
           /\ IF requests'["send"].transport.state = "rejected"
              THEN /\ submitStatus' = "error"
                   /\ formData' = formData
              ELSE /\ submitStatus' = "success"
                   /\ \A f \in {"name", "email", "subject", "message"} :
                          formData'[f] = <<>>]_vars

C20_Witness ==
    /\ Failed("send")
    /\ submitStatus = "error"
    /\ isSubmitting = FALSE
    /\ \A f \in FormFields : formData[f] = <<"x">>

----------------------------------------------------------------------------
(* The words of a line: its maximal runs of non-whitespace characters, in
   lower case *)
RECURSIVE Words(_)
Words(line) ==
    LET t == trimStart(toLowerCase(line))
        n == IF \E i \in 1..Len(t) : t[i] \in WhiteSpace
             THEN CHOOSE k \in 1..Len(t) :
                      t[k] \in WhiteSpace
                      /\ \A j \in 1..(k - 1) : t[j] \notin WhiteSpace
             ELSE Len(t) + 1
    IN  IF t = <<>> THEN <<>>
        ELSE <<SubSeq(t, 1, n - 1)>> \o Words(SubSeq(t, n, Len(t)))

(* C21: a submitted line whose words are `theme` and `magic`, whatever its
   letter case, its leading and trailing whitespace and the whitespace
   between the two words, behaves as `theme magic` does: it calls
   setTheme('magic') once and appends the confirmation entry. *)
C21_NormalizationIgnoresCaseAndSpacing ==
    [][(Submits /\ Words(currentInput) = <<S_theme, T_magic>>) =>
           /\ event'.calls = <<Call(T_magic, "command", TRUE)>>
           /\ currentTheme' = T_magic
           /\ Last(commands').input = currentInput
           /\ Last(commands').output =
                  Node("theme-switched", <<T_magic>>)]_vars

----------------------------------------------------------------------------
(* C22: ArrowUp with the cursor below length(Input History) - 1 increments
   the cursor and stages the entry that many places before the newest one;
   with the cursor at the oldest entry, or with an empty history, it changes
   neither the cursor nor the input buffer. *)
C22_RecallPrevious ==
    [][(event'.op = "ArrowUp") =>
           IF historyIndex < Len(commandHistory) - 1
           THEN /\ historyIndex' = historyIndex + 1
                /\ currentInput' =
                       commandHistory[Len(commandHistory) - historyIndex']
           ELSE UNCHANGED <<historyIndex, currentInput>>]_vars

C22_Witness ==
    /\ event.op = "ArrowUp"
    /\ Len(commandHistory) = 2
    /\ commandHistory[1] # commandHistory[2]
    /\ historyIndex = 1
    /\ currentInput = commandHistory[1]

----------------------------------------------------------------------------
(* C23: ArrowDown with the cursor above 0 decrements the cursor and stages
   the entry that many places before the newest one; with the cursor at 0
   it sets the cursor to -1 and empties the input buffer; with the cursor
   at -1 it changes neither, so typed text is kept. *)
C23_RecallNext ==
    [][(event'.op = "ArrowDown") =>
           IF historyIndex > 0
           THEN /\ historyIndex' = historyIndex - 1
                /\ currentInput' =
                       commandHistory[Len(commandHistory) - historyIndex']
           ELSE IF historyIndex = 0
                THEN /\ historyIndex' = -1
                     /\ currentInput' = <<>>
                ELSE UNCHANGED <<historyIndex, currentInput>>]_vars

C23_Witness ==
    /\ event.op = "ArrowDown"
    /\ Len(commandHistory) = 2
    /\ commandHistory[1] # commandHistory[2]
    /\ historyIndex = 0
    /\ currentInput = commandHistory[2]

----------------------------------------------------------------------------
(* C24: the terminal is mounted exactly while the theme is 'cmd': a step
   that takes the theme away from cmd leaves no fetch and no timer belonging
   to a mounted terminal, and a step that brings the theme to cmd starts the
   terminal with the welcome entry alone, an empty Input History, an empty
   input buffer and the recall cursor at -1, whatever the previous session
   left. *)
C24_MountedIffCmd ==
    /\ [](mounted <=> currentTheme = <<"c","m","d">>)
    /\ [](~mounted =>
              /\ fetchStatus # "pending"
              /\ \A i \in 1..Len(timers) : ~timers[i].live)
    /\ [][(currentTheme # <<"c","m","d">> /\ currentTheme' = <<"c","m","d">>) =>
              /\ commands' = <<welcomeCommand(now)>>
              /\ commandHistory' = <<>>
              /\ historyIndex' = -1
              /\ currentInput' = <<>>
              /\ projects' = <<>>]_vars

C24_Witness ==
    /\ mounted
    /\ event.op = "setTheme"
    /\ Len(commands) = 1
    /\ commandHistory = <<>>
    /\ historyIndex = -1
    /\ timers # <<>>
    /\ ~timers[1].live

----------------------------------------------------------------------------
(* C25, as claimed: after a submission the input buffer is empty, whatever
   the line was. *)
C25_SubmitEmptiesBuffer ==
    event.op = "handleSubmit" => currentInput = <<>>

(* C25, amended: after the submission of a line that is not blank the input
   buffer is empty, whichever command the line dispatched to; the submission
   of a whitespace-only line leaves the line in the buffer. *)
C25_SubmitEmptiesBufferUnlessBlank ==
    event.op = "handleSubmit" =>
        currentInput = IF IsBlank(event.input) THEN event.input ELSE <<>>

C25_Witness ==
    /\ Submitted(L_clear)
    /\ currentInput = <<>>
    /\ commands = <<>>
    /\ commandHistory # <<>>

----------------------------------------------------------------------------
(* C27: executing `clear` empties the Session Log and changes nothing else
   of the session: the Input History, the recall cursor, the theme, the
   timers and the project cache stay as they are and no setTheme call is
   made.  So an ArrowUp that follows a `clear` submitted with the cursor at
   c >= 0 moves the cursor to c + 1 and stages that entry, if there is
   one. *)
C27_ClearKeepsCursor ==
    [][/\ (Submits /\ LeadingToken(currentInput) = S_clear) =>
              /\ commands' = <<>>
              /\ UNCHANGED <<commandHistory, historyIndex, currentTheme,
                             timers, projects, fetchStatus>>
              /\ event'.calls = <<>>
       /\ (/\ event.op = "handleSubmit"
           /\ LeadingToken(event.input) = S_clear
           /\ event'.op = "ArrowUp"
           /\ historyIndex >= 0
           /\ historyIndex + 1 < Len(commandHistory)) =>
              /\ historyIndex' = historyIndex + 1
              /\ currentInput' =
                     commandHistory[Len(commandHistory) - (historyIndex + 1)]]_vars

C27_Witness ==
    /\ Submitted(L_clear)
    /\ commands = <<>>
    /\ historyIndex = 0
    /\ commandHistory = <<L_Foo_bar, L_exit>>

----------------------------------------------------------------------------
(* C28: in a mounted terminal every Session Log entry whose input is not
   empty has that same string in the Input History, only the welcome entry
   has an empty input, and the log is at most one entry longer than the
   history. *)
C28_LogWithinHistory ==
    mounted =>
        /\ \A i \in 1..Len(commands) :
               IF commands[i].input = <<>>
               THEN commands[i].output.kind = "welcome" /\ i = 1
               ELSE \E j \in 1..Len(commandHistory) :
                        commandHistory[j] = commands[i].input
        /\ Len(commands) <= Len(commandHistory) + 1

C28_Witness ==
    /\ mounted
    /\ Len(commands) = 3
    /\ Len(commandHistory) = 2
    /\ commands[2].input = L_Foo_bar
    /\ commands[3].input = L_exit

----------------------------------------------------------------------------
(* When each pending callback is due *)
Dues(ts) == [i \in 1..Len(ts) |-> ts[i].due]

(* C26: nothing but its own firing removes a pending `exit` callback: every
   step keeps the pending callbacks, or is an `exit` submission and adds
   one, or runs the oldest one, which calls setTheme('default') and leaves
   the theme 'default'; so k executions of `exit` give k calls.  A callback
   pending while the theme is angler, magic or cmd does fire, and the theme
   is 'default' then. *)
C26_ExitCallbackSurvives ==
    /\ [][\/ Dues(timers') = Dues(timers) /\ event'.op # "timeout"
          \/ /\ Submits
             /\ LeadingToken(currentInput) = S_exit
             /\ Dues(timers') = Append(Dues(timers), now + 1000)
          \/ /\ event'.op = "timeout"
             /\ Dues(timers') = Tail(Dues(timers))
             /\ Len(event'.calls) = 1
             /\ event'.calls[1].theme = T_default
             /\ event'.calls[1].by = "timer"
             /\ currentTheme' = T_default]_vars
    /\ (timers # <<>> /\ currentTheme \in {T_angler, T_magic, T_cmd})
           ~> (event.op = "timeout" /\ currentTheme = T_default)

C26_Witness ==
    /\ event.op = "timeout"
    /\ event.calls = <<Call(T_default, "timer", FALSE)>>
    /\ Last(commands).input = L_theme_magic
    /\ Len(commands) = 3
    /\ commands[2].input = L_exit
    /\ currentTheme = T_default
    /\ timers = <<>>

----------------------------------------------------------------------------
(* C29: while the request of a contact submission is in flight isSubmitting
   is true and submitStatus is 'idle'; a submission starts only when none is
   in flight and clears the banner of the previous one; once the request has
   settled isSubmitting is false and submitStatus is 'success' or 'error';
   given that the request settles, every started submission reaches
   isSubmitting = false. *)
C29_SubmissionLifecycle ==
    /\ [](/\ requests["send"].status = "inflight" =>
                 isSubmitting /\ submitStatus = "idle"
          /\ requests["send"].status = "settled" =>
                 ~isSubmitting /\ submitStatus \in {"success", "error"}
          /\ requests["send"].status = "idle" =>
                 ~isSubmitting /\ submitStatus = "idle")
    /\ [][(requests'["send"].status = "inflight"
              /\ requests["send"].status # "inflight") =>
              ~isSubmitting /\ isSubmitting' /\ submitStatus' = "idle"]_vars
    /\ isSubmitting ~> ~isSubmitting

C29_Witness ==
    /\ requests["send"].status = "inflight"
    /\ requests["send"].sentAt = 10000
    /\ isSubmitting
    /\ submitStatus = "idle"
    /\ <<"API Error:", "ECONNABORTED">> \in console
    /\ requests["getAll"].transport.state = "fulfilled"
    /\ requests["getCategories"].transport.state = "fulfilled"

----------------------------------------------------------------------------
(* The name of the list at index i is displayed in full *)
Full(i) == currentNameIndex = i /\ displayedName = names[i + 1]

(* C30: in the default theme the displayed name is a prefix of
   names[currentNameIndex]; the phase goes from typing to erasing only with
   the full current name displayed; within the default theme
   currentNameIndex changes only with nothing displayed in the erasing
   phase, to the next index modulo the number of names, and the phase is
   typing again; and if the theme stays 'default' from some point on, each
   of the two names is displayed in full again and again. *)
C30_Typewriter ==
    /\ [](currentTheme = T_default =>
              /\ currentNameIndex \in 0..1
              /\ displayedName =
                     SubSeq(names[currentNameIndex + 1], 1, Len(displayedName)))
    /\ [][(currentTheme = T_default /\ currentTheme' = T_default) =>
              /\ (isTyping /\ ~isTyping') =>
                     /\ displayedName = names[currentNameIndex + 1]
                     /\ UNCHANGED <<displayedName, currentNameIndex>>
              /\ (currentNameIndex' # currentNameIndex) =>
                     /\ displayedName = <<>>
                     /\ ~isTyping
                     /\ currentNameIndex' = (currentNameIndex + 1) % 2
                     /\ isTyping'
                     /\ displayedName' = <<>>]_vars
    /\ <>[](currentTheme = T_default) => ([]<>Full(0) /\ []<>Full(1))

C30_Witness ==
    /\ currentTheme = T_default
    /\ Full(1)
    /\ ~isTyping
    /\ displayedName = <<"F","e","l","i","p","e"," ","B","a","r","b","o","s","a">>

====
